---- MODULE Spec2Model ----
(***************************************************************************)
(* cowcell: a cell-like type with clone-on-write borrowing (src/lib.rs).   *)
(*                                                                         *)
(* A CowCell<T> owns a value.  CowCell::borrow gives a CowRef<T> holding   *)
(* a shared reference to the cell and an Option<T> copy.  Reads go to the  *)
(* cell until the first mutable access, which clones the value into the    *)
(* copy; later reads and writes use the copy.                              *)
(*                                                                         *)
(* The model is a caller program owning one cell slot and NumHandles      *)
(* handle slots, performing the public operations in any order the         *)
(* borrow checker admits.  T is the integers modulo MaxVal + 1; a      *)
(* mutable access is one statement `*h.get_mut() += d` or `*h += d`        *)
(* (wrapping), d = 0 being an access that leaves the value as it is.       *)
(***************************************************************************)
EXTENDS Integers, Sequences, FiniteSets

\* ---------------------------------------------------------------- bounds
NumHandles == 2
MaxVal == 1

\* the caller's cell slots: one cell at a time, any number of borrows of it
Cells == {1}
Handles == 1..NumHandles
Val == 0..MaxVal
Delta == Val

\* ------------------------------------------------------- Option<X>, refs
None == <<>>
Some(x) == <<x>>
IsSome(o) == o # <<>>
Unwrap(o) == o[1]

\* A reference is the place it points to: the `val` field of a cell, the
\* payload of the `copy` field of a handle, or a cell as a whole.
NoRef == [kind |-> "none", id |-> 0]
ValLoc(c) == [kind |-> "val", id |-> c]
CopyLoc(h) == [kind |-> "copy", id |-> h]
CellRef(c) == [kind |-> "cell", id |-> c]

\* the storage of a T the caller owns: a value returned by value
OwnedLoc == [kind |-> "owned", id |-> 0]

VARIABLES
    cells,      \* cells[c]: Option<CowCell<T>>, the caller's c-th cell
    handles,    \* handles[h]: Option<CowRef<T>>, the caller's h-th borrow
    ret,        \* the last operation, its argument and what it returned
    wrapped,    \* wrapped[c]: the value cell c was made from, and whether a
                \* handle on it has had a mutable access since
    source,     \* source[h]: the cell handle h was created from (0: none)
    origin,     \* origin[h]: the cell's value when handle h was created
    folded,     \* folded[h]: fk(...f1(origin[h])), f1..fk the writes made through h
    nmut,       \* nmut[h]: mutable accesses made on handle h: 0, 1, 2 = two or more
    nclones     \* nclones[h]: T::clone calls made by handle h: 0, 1, 2 = two or more

vars == <<cells, handles, ret, wrapped, source, origin, folded, nmut, nclones>>

\* --------------------------------------------------------------- T
\* T::clone
clone(v) == v

\* `*r += d` on T
AddT(v, d) == (v + d) % (MaxVal + 1)

\* The value behind a `&T` / `&mut T`, in memory (cs, hs)
Load(cs, hs, loc) ==
    IF loc.kind = "val" THEN Unwrap(cs[loc.id]).val
    ELSE Unwrap(Unwrap(hs[loc.id]).copy)

LoadT(loc) == Load(cells, handles, loc)

\* `*r = w` for a `&mut T` r = loc, in memory (cs, hs)
Store(cs, hs, loc, w) ==
    IF loc.kind = "val"
    THEN [cells |-> [cs EXCEPT ![loc.id] = Some([Unwrap(@) EXCEPT !.val = w])],
          handles |-> hs]
    ELSE [cells |-> cs,
          handles |-> [hs EXCEPT ![loc.id] = Some([Unwrap(@) EXCEPT !.copy = Some(w)])]]

\* T::default()
DefaultT == 0

\* Ord::cmp on T: Less, Equal, Greater as -1, 0, 1
CmpT(x, y) == IF x < y THEN -1 ELSE IF x = y THEN 0 ELSE 1

\* --------------------------------------------------------------- CowCell
CowCell_new(val) == [val |-> val]

\* as CowCell_from, building the default cell and dropping the argument
CowCell_from_default(val) == CowCell_new(0)

CowCell_from(val) == CowCell_new(val)

CowCell_deref(c) == ValLoc(c)

CowCell_into_inner(self) == self.val

\* #[derive(...)] on CowCell
CowCell_derives == {"Debug", "Clone", "Copy", "Default", "PartialEq", "Eq", "PartialOrd", "Ord"}

\* the derived PartialEq::eq: field by field
CowCell_eq(a, b) == a.val = b.val

\* as CowCell_cmp, with the operands swapped
CowCell_cmp_swapped(a, b) == CmpT(b.val, a.val)

\* the derived Ord::cmp: field by field
CowCell_cmp(a, b) == CmpT(a.val, b.val)

\* the derived Default::default
CowCell_default == [val |-> DefaultT]

\* --------------------------------------------------------------- CowRef
\* as CowRef_new, cloning the value at construction
CowRef_new_eager(ptr) == [ptr |-> ptr, copy |-> Some(clone(Unwrap(cells[ptr]).val))]

CowRef_new(ptr) == [ptr |-> ptr, copy |-> None]

CowRef_from(cell) == CowRef_new(cell)

CowCell_borrow(c) == CowRef_new(c)

\* #[derive(...)] on CowRef
CowRef_derives == {"Debug"}

get_cell(self) == CellRef(self.ptr)

\* as get_ref, never looking at the copy
get_ref_original(h) == ValLoc(Unwrap(handles[h]).ptr)

get_ref(h) ==
    LET self == Unwrap(handles[h])
    IN  IF IsSome(self.copy) THEN CopyLoc(h) ELSE ValLoc(self.ptr)

\* as is_cloned, reporting whether the handle's value differs from the cell's
is_cloned_by_value(self) ==
    IsSome(self.copy) /\ Unwrap(self.copy) # Unwrap(cells[self.ptr]).val

\* as is_cloned, with is_none for is_some
is_cloned_negated(self) == ~IsSome(self.copy)

is_cloned(self) == IsSome(self.copy)

\* as get_mut, handing out the cell's value itself
get_mut_in_place(h) ==
    LET self == Unwrap(handles[h])
    IN  [self |-> self, ref |-> ValLoc(self.ptr), clones |-> 0]

\* as get_mut, filling the copy with T::default() in place of the clone
get_mut_default(h) ==
    LET self == Unwrap(handles[h])
    IN  IF IsSome(self.copy)
        THEN [self |-> self, ref |-> CopyLoc(h), clones |-> 0]
        ELSE [self |-> [self EXCEPT !.copy = Some(0)], ref |-> CopyLoc(h), clones |-> 0]

\* as get_mut, with Option::insert for Option::get_or_insert_with
get_mut_reclone(h) ==
    LET self == Unwrap(handles[h])
    IN  [self |-> [self EXCEPT !.copy = Some(clone(Unwrap(cells[self.ptr]).val))],
         ref |-> CopyLoc(h), clones |-> 1]

\* Option::get_or_insert_with(|| self.ptr.val.clone()): the handle after the
\* call, the place the returned `&mut T` points to, and the clones made.
get_mut(h) ==
    LET self == Unwrap(handles[h])
    IN  IF IsSome(self.copy)
        THEN [self |-> self, ref |-> CopyLoc(h), clones |-> 0]
        ELSE [self |-> [self EXCEPT !.copy = Some(clone(Unwrap(cells[self.ptr]).val))],
              ref |-> CopyLoc(h), clones |-> 1]

\* as CowRef_into_inner, with Option::unwrap_or_default
into_inner_default(h) ==
    LET self == Unwrap(handles[h])
    IN  [val |-> IF IsSome(self.copy) THEN Unwrap(self.copy) ELSE 0, clones |-> 0,
         place |-> OwnedLoc]

\* as CowRef_into_inner, with Option::unwrap_or(self.ptr.val.clone())
into_inner_eager(h) ==
    LET self == Unwrap(handles[h])
    IN  [val |-> IF IsSome(self.copy) THEN Unwrap(self.copy)
                 ELSE clone(Unwrap(cells[self.ptr]).val),
         clones |-> 1, place |-> OwnedLoc]

\* as CowRef_into_inner, always cloning the cell's value
into_inner_fresh(h) ==
    LET self == Unwrap(handles[h])
    IN  [val |-> clone(Unwrap(cells[self.ptr]).val), clones |-> 1, place |-> OwnedLoc]

\* as CowRef_into_inner, reading the cell's value out bitwise (ptr::read)
\* where it should clone: the result still lives in the cell
into_inner_bitwise(h) ==
    LET self == Unwrap(handles[h])
    IN  IF IsSome(self.copy)
        THEN [val |-> Unwrap(self.copy), clones |-> 0, place |-> OwnedLoc]
        ELSE [val |-> Unwrap(cells[self.ptr]).val, clones |-> 1, place |-> ValLoc(self.ptr)]

\* Option::unwrap_or_else(|| self.ptr.val.clone()): the value returned, the
\* clones made, and where the returned T lives (moved out of the copy, or
\* made by T::clone: the caller's own either way).
CowRef_into_inner(h) ==
    LET self == Unwrap(handles[h])
    IN  IF IsSome(self.copy)
        THEN [val |-> Unwrap(self.copy), clones |-> 0, place |-> OwnedLoc]
        ELSE [val |-> clone(Unwrap(cells[self.ptr]).val), clones |-> 1, place |-> OwnedLoc]

deref(h) == get_ref(h)

deref_mut(h) == get_mut(h)

\* --------------------------------------------------------------- state
Ret(op, id, ref, val, flag, clones) ==
    [op |-> op, id |-> id, arg |-> 0, ref |-> ref, val |-> val, flag |-> flag,
     clones |-> clones]

\* the same, for an operation with an argument
RetArg(op, id, arg, ref, val, flag) == [Ret(op, id, ref, val, flag, 0) EXCEPT !.arg = arg]

Wrapped(v) == [val |-> v, written |-> FALSE]

Live(h) == IsSome(handles[h])

\* The borrow checker: a cell is borrowed while a CowRef<'a, T> with
\* ptr: &'a CowCell<T> to it is alive.
Borrowed(c) == \E h \in Handles : Live(h) /\ Unwrap(handles[h]).ptr = c

\* counting 0, 1, 2 = two or more
Count(n) == IF n < 2 THEN n ELSE 2

Init ==
    /\ \E v \in Val :
         cells = [c \in Cells |-> IF c = 1 THEN Some(CowCell_new(v)) ELSE None]
    /\ handles = [h \in Handles |-> None]
    /\ ret = Ret("new", 1, NoRef, 0, FALSE, 0)
    /\ wrapped = [c \in Cells |-> Wrapped(Unwrap(cells[c]).val)]
    /\ source = [h \in Handles |-> 0]
    /\ origin = [h \in Handles |-> 0]
    /\ folded = [h \in Handles |-> 0]
    /\ nmut = [h \in Handles |-> 0]
    /\ nclones = [h \in Handles |-> 0]

UnchangedHandles == UNCHANGED <<handles, source, origin, folded, nmut, nclones>>

\* ------------------------------------------------------- cell operations
\* let c = CowCell::new(v);
New(c, v) ==
    /\ ~IsSome(cells[c])
    /\ cells' = [cells EXCEPT ![c] = Some(CowCell_new(v))]
    /\ wrapped' = [wrapped EXCEPT ![c] = Wrapped(v)]
    /\ ret' = Ret("new", c, NoRef, 0, FALSE, 0)
    /\ UnchangedHandles

\* let c = CowCell::from(v);
From(c, v) ==
    /\ ~IsSome(cells[c])
    /\ cells' = [cells EXCEPT ![c] = Some(CowCell_from(v))]
    /\ wrapped' = [wrapped EXCEPT ![c] = Wrapped(v)]
    /\ ret' = Ret("from", c, NoRef, 0, FALSE, 0)
    /\ UnchangedHandles

\* *c
CellDeref(c) ==
    /\ IsSome(cells[c])
    /\ ret' = Ret("cell_deref", c, CowCell_deref(c), LoadT(CowCell_deref(c)), FALSE, 0)
    /\ UNCHANGED <<cells, wrapped>>
    /\ UnchangedHandles

\* as CellIntoInner, were ptr a raw pointer the borrow checker does not follow
CellIntoInner_unchecked(c) ==
    /\ IsSome(cells[c])
    /\ ret' = Ret("cell_into_inner", c, NoRef, CowCell_into_inner(Unwrap(cells[c])), FALSE, 0)
    /\ cells' = [cells EXCEPT ![c] = None]
    /\ UNCHANGED wrapped
    /\ UnchangedHandles

\* c.into_inner(): moves the cell, so no borrow of it may be alive
CellIntoInner(c) ==
    /\ IsSome(cells[c])
    /\ ~Borrowed(c)
    /\ ret' = Ret("cell_into_inner", c, NoRef, CowCell_into_inner(Unwrap(cells[c])), FALSE, 0)
    /\ cells' = [cells EXCEPT ![c] = None]
    /\ UNCHANGED wrapped
    /\ UnchangedHandles

\* let c = CowCell::default();
Default(c) ==
    /\ "Default" \in CowCell_derives
    /\ ~IsSome(cells[c])
    /\ cells' = [cells EXCEPT ![c] = Some(CowCell_default)]
    /\ wrapped' = [wrapped EXCEPT ![c] = Wrapped(DefaultT)]
    /\ ret' = Ret("default", c, NoRef, 0, FALSE, 0)
    /\ UnchangedHandles

\* c == CowCell::new(v) and c.cmp(&CowCell::new(v))
CellCompare(c, v) ==
    /\ {"PartialEq", "Ord"} \subseteq CowCell_derives
    /\ IsSome(cells[c])
    /\ ret' = RetArg("cell_cmp", c, v, NoRef,
                     CowCell_cmp(Unwrap(cells[c]), CowCell_new(v)),
                     CowCell_eq(Unwrap(cells[c]), CowCell_new(v)))
    /\ UNCHANGED <<cells, wrapped>>
    /\ UnchangedHandles

\* ----------------------------------------------------- handle operations
\* Handle slot h now holds the new handle `self` on cell c.
Created(h, c, self, op) ==
    /\ handles' = [handles EXCEPT ![h] = Some(self)]
    /\ source' = [source EXCEPT ![h] = c]
    /\ origin' = [origin EXCEPT ![h] = Unwrap(cells[c]).val]
    /\ folded' = [folded EXCEPT ![h] = Unwrap(cells[c]).val]
    /\ nmut' = [nmut EXCEPT ![h] = 0]
    /\ nclones' = [nclones EXCEPT ![h] = IF IsSome(self.copy) THEN 1 ELSE 0]
    /\ ret' = Ret(op, h, CellRef(c), 0, FALSE, nclones'[h])
    /\ UNCHANGED <<cells, wrapped>>

\* let h = c.borrow();
Borrow(c, h) ==
    /\ IsSome(cells[c])
    /\ ~Live(h)
    /\ Created(h, c, CowCell_borrow(c), "borrow")

\* let h = CowRef::from(&c);
BorrowFrom(c, h) ==
    /\ IsSome(cells[c])
    /\ ~Live(h)
    /\ Created(h, c, CowRef_from(c), "from_ref")

\* A mutable access r (what get_mut / deref_mut did and returned) on h,
\* then `*r.ref += d` through the returned `&mut T`.
MutAccess(h, r, d, op) ==
    LET hs == [handles EXCEPT ![h] = Some(r.self)]
        w == AddT(Load(cells, hs, r.ref), d)
        m == Store(cells, hs, r.ref, w)
    IN  /\ cells' = m.cells
        /\ handles' = m.handles
        /\ folded' = [folded EXCEPT ![h] = AddT(@, d)]
        /\ nmut' = [nmut EXCEPT ![h] = Count(@ + 1)]
        /\ nclones' = [nclones EXCEPT ![h] = Count(@ + r.clones)]
        /\ ret' = Ret(op, h, r.ref, w, FALSE, r.clones)
        /\ wrapped' = [wrapped EXCEPT ![source[h]].written = TRUE]
        /\ UNCHANGED <<source, origin>>

\* as GetCell, presenting the copy as a cell once there is one
GetCell_of_copy(h) ==
    /\ Live(h)
    /\ ret' = Ret("get_cell", h,
                  IF is_cloned(Unwrap(handles[h])) THEN CopyLoc(h)
                  ELSE get_cell(Unwrap(handles[h])),
                  0, FALSE, 0)
    /\ UNCHANGED <<cells, wrapped>>
    /\ UnchangedHandles

\* h.get_cell()
GetCell(h) ==
    /\ Live(h)
    /\ ret' = Ret("get_cell", h, get_cell(Unwrap(handles[h])), 0, FALSE, 0)
    /\ UNCHANGED <<cells, wrapped>>
    /\ UnchangedHandles

\* h.get_ref()
GetRef(h) ==
    /\ Live(h)
    /\ ret' = Ret("get_ref", h, get_ref(h), LoadT(get_ref(h)), FALSE, 0)
    /\ UNCHANGED <<cells, wrapped>>
    /\ UnchangedHandles

\* as Deref, going through get_mut
Deref_through_get_mut(h) ==
    /\ Live(h)
    /\ MutAccess(h, get_mut(h), 0, "deref")

\* *h
Deref(h) ==
    /\ Live(h)
    /\ ret' = Ret("deref", h, deref(h), LoadT(deref(h)), FALSE, 0)
    /\ UNCHANGED <<cells, wrapped>>
    /\ UnchangedHandles

\* h.is_cloned()
IsCloned(h) ==
    /\ Live(h)
    /\ ret' = Ret("is_cloned", h, NoRef, 0, is_cloned(Unwrap(handles[h])), 0)
    /\ UNCHANGED <<cells, wrapped>>
    /\ UnchangedHandles

\* *h.get_mut() += d;
GetMut(h, d) ==
    /\ Live(h)
    /\ MutAccess(h, get_mut(h), d, "get_mut")

\* *h += d;
DerefMut(h, d) ==
    /\ Live(h)
    /\ MutAccess(h, deref_mut(h), d, "deref_mut")

\* Handle slot h is empty again: the handle and its copy are gone.
Gone(h) ==
    /\ handles' = [handles EXCEPT ![h] = None]
    /\ source' = [source EXCEPT ![h] = 0]
    /\ origin' = [origin EXCEPT ![h] = 0]
    /\ folded' = [folded EXCEPT ![h] = 0]
    /\ nmut' = [nmut EXCEPT ![h] = 0]
    /\ nclones' = [nclones EXCEPT ![h] = 0]
    /\ UNCHANGED <<cells, wrapped>>

\* *h1 == *h2 and (*h1).cmp(&*h2): T's own comparison, reached through Deref
DerefCompare(h1, h2) ==
    /\ Live(h1)
    /\ Live(h2)
    /\ ret' = RetArg("deref_cmp", h1, h2, NoRef,
                     CmpT(LoadT(deref(h1)), LoadT(deref(h2))),
                     LoadT(deref(h1)) = LoadT(deref(h2)))
    /\ UNCHANGED <<cells, wrapped>>
    /\ UnchangedHandles

\* let v = h.into_inner();
IntoInner(h) ==
    /\ Live(h)
    /\ LET r == CowRef_into_inner(h)
       IN  ret' = Ret("into_inner", h, NoRef, r.val, FALSE, r.clones)
    /\ Gone(h)

\* as Drop, with a Drop impl that stores the copy back into the cell
Drop_write_back(h) ==
    /\ Live(h)
    /\ ret' = Ret("drop", h, NoRef, 0, FALSE, 0)
    /\ handles' = [handles EXCEPT ![h] = None]
    /\ cells' = IF is_cloned(Unwrap(handles[h]))
                THEN Store(cells, handles, ValLoc(Unwrap(handles[h]).ptr),
                           Unwrap(Unwrap(handles[h]).copy)).cells
                ELSE cells
    /\ source' = [source EXCEPT ![h] = 0]
    /\ origin' = [origin EXCEPT ![h] = 0]
    /\ folded' = [folded EXCEPT ![h] = 0]
    /\ nmut' = [nmut EXCEPT ![h] = 0]
    /\ nclones' = [nclones EXCEPT ![h] = 0]
    /\ UNCHANGED wrapped

\* let mut v = h.into_inner(); v += d;
IntoInnerWrite(h, d) ==
    /\ Live(h)
    /\ LET r == CowRef_into_inner(h)
           w == AddT(r.val, d)
           m == IF r.place = OwnedLoc
                THEN [cells |-> cells, handles |-> handles]
                ELSE Store(cells, handles, r.place, w)
       IN  /\ cells' = m.cells
           /\ handles' = [m.handles EXCEPT ![h] = None]
           /\ ret' = [Ret("into_inner_write", h, r.place, w, FALSE, r.clones)
                        EXCEPT !.arg = d]
    /\ source' = [source EXCEPT ![h] = 0]
    /\ origin' = [origin EXCEPT ![h] = 0]
    /\ folded' = [folded EXCEPT ![h] = 0]
    /\ nmut' = [nmut EXCEPT ![h] = 0]
    /\ nclones' = [nclones EXCEPT ![h] = 0]
    /\ UNCHANGED wrapped

\* drop(h)
Drop(h) ==
    /\ Live(h)
    /\ ret' = Ret("drop", h, NoRef, 0, FALSE, 0)
    /\ Gone(h)

Next ==
    \/ \E c \in Cells, v \in Val : New(c, v)
    \/ \E c \in Cells, v \in Val : From(c, v)
    \/ \E c \in Cells : CellDeref(c)
    \/ \E c \in Cells : CellIntoInner(c)
    \/ \E c \in Cells : Default(c)
    \/ \E c \in Cells, v \in Val : CellCompare(c, v)
    \/ \E h1, h2 \in Handles : DerefCompare(h1, h2)
    \/ \E c \in Cells, h \in Handles : Borrow(c, h)
    \/ \E c \in Cells, h \in Handles : BorrowFrom(c, h)
    \/ \E h \in Handles : GetCell(h)
    \/ \E h \in Handles : GetRef(h)
    \/ \E h \in Handles : Deref(h)
    \/ \E h \in Handles : IsCloned(h)
    \/ \E h \in Handles, d \in Delta : GetMut(h, d)
    \/ \E h \in Handles, d \in Delta : DerefMut(h, d)
    \/ \E h \in Handles : IntoInner(h)
    \/ \E h \in Handles, d \in Delta : IntoInnerWrite(h, d)
    \/ \E h \in Handles : Drop(h)

Spec == Init /\ [][Next]_vars

\* ================================================================ claims
Self(h) == Unwrap(handles[h])

Cloned(h) == Live(h) /\ is_cloned(Self(h))

Uncloned(h) == Live(h) /\ ~is_cloned(Self(h))

\* `*c` for the cell handle h borrows
CellOf(h) == LoadT(CowCell_deref(Self(h).ptr))

ReadOps == {"get_ref", "deref", "is_cloned", "get_cell"}

MutOps == {"get_mut", "deref_mut"}

\* the step is h.into_inner()
IntoInnerStep(h) == Live(h) /\ handles'[h] = None /\ ret'.op = "into_inner" /\ ret'.id = h

\* C1: no step changes what reading a cell directly yields, as long as the
\* cell is there: no operation on any handle writes into the cell.
C1_CellNeverWritten ==
    [][\A c \in Cells :
         IsSome(cells[c]) /\ IsSome(cells'[c])
           => Load(cells', handles', CowCell_deref(c)) = LoadT(CowCell_deref(c))]_vars

C1_Witness ==
    \E h \in Handles : Cloned(h) /\ nmut[h] = 2 /\ LoadT(deref(h)) # CellOf(h)

\* C2: right after c.borrow() or CowRef::from(&c) the new handle is not
\* cloned, reads the cell's value, and no clone of T was made.
C2_FreshHandle ==
    ret.op \in {"borrow", "from_ref"}
      => /\ Live(ret.id)
         /\ ~is_cloned(Self(ret.id))
         /\ LoadT(deref(ret.id)) = LoadT(CowCell_deref(ret.ref.id))
         /\ ret.clones = 0
         /\ nclones[ret.id] = 0

C2_Witness ==
    /\ ret.op = "from_ref"
    /\ Live(ret.id)
    /\ LoadT(deref(ret.id)) = MaxVal
    /\ \E h \in Handles : Cloned(h)

\* C3: after exactly one mutable access applying f on a handle over a cell
\* holding v, the handle is cloned and reads f(v), and the cell still holds v.
C3_OneMutableAccess ==
    \A h \in Handles :
        Live(h) /\ nmut[h] = 1
          => /\ is_cloned(Self(h))
             /\ LoadT(deref(h)) = folded[h]
             /\ CellOf(h) = origin[h]

C3_Witness ==
    \E h \in Handles :
        /\ Live(h) /\ nmut[h] = 1
        /\ origin[h] = MaxVal
        /\ LoadT(deref(h)) # origin[h]
        /\ ret.op = "deref_mut" /\ ret.id = h

\* C4: a handle that is cloned stays cloned in every step that leaves it alive.
C4_ClonedIsMonotone ==
    [][\A h \in Handles :
         Cloned(h) /\ handles'[h] # None => is_cloned(Unwrap(handles'[h]))]_vars

C4_Witness ==
    \E h \in Handles :
        Cloned(h) /\ nmut[h] = 2 /\ ret.op = "is_cloned" /\ ret.id = h /\ ret.flag

\* C5: a handle has cloned the cell's value exactly once as soon as it has
\* had a mutable access, however many followed and whatever reads came in
\* between, and not at all before; a second or later mutable access clones
\* nothing.
C5_ClonedOnce ==
    \A h \in Handles :
        Live(h)
          => /\ nmut[h] = 0 => nclones[h] = 0
             /\ nmut[h] >= 1 => nclones[h] = 1
             /\ ret.op \in MutOps /\ ret.id = h /\ nmut[h] = 2 => ret.clones = 0

C5_Witness ==
    \E h \in Handles :
        Live(h) /\ nmut[h] = 2 /\ nclones[h] = 1 /\ ret.op = "get_mut" /\ ret.id = h

\* C6: a cloned handle reads its copy, the next mutable access hands out that
\* same copy unchanged, and the copy holds fk(...f1(v)) for the writes
\* f1..fk made through the handle.
C6_CopyIsUsed ==
    \A h \in Handles :
        Cloned(h)
          => /\ get_ref(h) = CopyLoc(h)
             /\ deref(h) = CopyLoc(h)
             /\ LoadT(get_ref(h)) = folded[h]
             /\ get_mut(h) = [self |-> Self(h), ref |-> CopyLoc(h), clones |-> 0]
             /\ deref_mut(h) = get_mut(h)
             /\ ret.op \in {"get_ref", "deref"} /\ ret.id = h => ret.val = folded[h]

C6_Witness ==
    \E h \in Handles :
        /\ Cloned(h) /\ nmut[h] = 2
        /\ folded[h] # origin[h]
        /\ ret.op = "get_ref" /\ ret.id = h /\ ret.val = folded[h]

\* C7: a step of get_ref, read dereference, is_cloned or get_cell changes no
\* handle and no cell, and clones nothing.
C7_ReadsChangeNothing ==
    [][ret'.op \in ReadOps
         => /\ handles' = handles
            /\ cells' = cells
            /\ nclones' = nclones
            /\ ret'.clones = 0]_vars

C7_Witness ==
    /\ ret.op = "deref"
    /\ Uncloned(ret.id)
    /\ \E h \in Handles : Cloned(h) /\ LoadT(deref(h)) # CellOf(h)

\* C8: into_inner on a handle that had no mutable access returns the value
\* the cell held when the handle was created, cloning once, and leaves the
\* cell as it was.
C8_IntoInnerUncloned ==
    [][\A h \in Handles :
         IntoInnerStep(h) /\ nmut[h] = 0
           => /\ ret'.val = origin[h]
              /\ ret'.val = CellOf(h)
              /\ ret'.clones = 1
              /\ cells' = cells]_vars

C8_Witness ==
    /\ ret.op = "into_inner"
    /\ ret.clones = 1
    /\ ret.val = MaxVal
    /\ \E c \in Cells : IsSome(cells[c]) /\ LoadT(CowCell_deref(c)) = MaxVal

\* C9: into_inner on a handle that had a mutable access returns the handle's
\* copy, which holds every write made through the handle, and clones nothing.
C9_IntoInnerCloned ==
    [][\A h \in Handles :
         IntoInnerStep(h) /\ nmut[h] >= 1
           => /\ ret'.val = Unwrap(Self(h).copy)
              /\ ret'.val = folded[h]
              /\ ret'.clones = 0]_vars

C9_Witness ==
    /\ ret.op = "into_inner"
    /\ ret.clones = 0
    /\ \E c \in Cells : IsSome(cells[c]) /\ LoadT(CowCell_deref(c)) # ret.val

\* C10: in every handle state into_inner returns the value that get_mut
\* would leave in the copy, and both clone equally often: once if the handle
\* is not cloned, not at all if it is.
C10_IntoInnerAsGetMut ==
    \A h \in Handles :
        Live(h)
          => /\ CowRef_into_inner(h).val = Unwrap(get_mut(h).self.copy)
             /\ CowRef_into_inner(h).clones = get_mut(h).clones
             /\ CowRef_into_inner(h).clones = IF is_cloned(Self(h)) THEN 0 ELSE 1

C10_Witness ==
    \E h1, h2 \in Handles :
        /\ Uncloned(h1)
        /\ Cloned(h2) /\ LoadT(deref(h2)) # CellOf(h2)

\* C11: a mutable access on one handle leaves every other handle as it was:
\* the same state, the same is_cloned, the same value read.  A handle becomes
\* cloned only in a step that is its own mutable access.
C11_HandlesIndependent ==
    [][\A h1, h2 \in Handles :
         /\ (h1 # h2 /\ Live(h2) /\ ret'.op \in MutOps /\ ret'.id = h1)
              => /\ handles'[h2] = handles[h2]
                 /\ is_cloned(Self(h2))' = is_cloned(Self(h2))
                 /\ LoadT(deref(h2))' = LoadT(deref(h2))
         /\ (Uncloned(h1) /\ Cloned(h1)')
              => ret'.op \in MutOps /\ ret'.id = h1]_vars

C11_Witness ==
    \E h1, h2 \in Handles :
        /\ ret.op \in MutOps /\ ret.id = h1
        /\ Cloned(h1) /\ Uncloned(h2)
        /\ LoadT(deref(h1)) # LoadT(deref(h2))

\* C12: get_cell gives the cell the handle was created from, whether or not
\* the handle is cloned: reading that cell yields the cell's original value,
\* whatever was written through the handle.
C12_GetCellIsSource ==
    /\ \A h \in Handles : Live(h) => get_cell(Self(h)) = CellRef(source[h])
    /\ ret.op = "get_cell"
         => /\ Live(ret.id)
            /\ ret.ref = CellRef(source[ret.id])
            /\ IsSome(cells[ret.ref.id])
            /\ LoadT(CowCell_deref(ret.ref.id)) = origin[ret.id]
            /\ LoadT(CowCell_deref(ret.ref.id)) = wrapped[ret.ref.id].val

C12_Witness ==
    /\ ret.op = "get_cell"
    /\ Cloned(ret.id)
    /\ nmut[ret.id] = 2
    /\ LoadT(deref(ret.id)) # LoadT(CowCell_deref(ret.ref.id))

C14_RoundTrip ==
    ret.op = "cell_into_inner"
      => /\ ~IsSome(cells[ret.id])
         /\ ret.val = wrapped[ret.id].val

C14_Witness ==
    /\ ret.op = "cell_into_inner"
    /\ ret.val = MaxVal
    /\ wrapped[ret.id] = [val |-> MaxVal, written |-> TRUE]

\* the comparison and default-value traits
ForwardedTraits == {"PartialEq", "Eq", "PartialOrd", "Ord", "Default"}

\* what CellCompare returned is the comparison of the cell's value with v
CellCompareForwards ==
    ret.op = "cell_cmp"
      => /\ ret.flag = (LoadT(CowCell_deref(ret.id)) = ret.arg)
         /\ ret.val = CmpT(LoadT(CowCell_deref(ret.id)), ret.arg)

\* C15 as stated: the cell type and the handle type both implement the
\* comparison and default-value traits, forwarding them to the value.
C15_BothTypesForward ==
    /\ ForwardedTraits \subseteq CowCell_derives
    /\ CellCompareForwards
    /\ \A h1, h2 \in Handles :
         h1 # h2 /\ Live(h1) /\ Live(h2) => ForwardedTraits \subseteq CowRef_derives

\* C15, amended: the cell type implements the comparison and default-value
\* traits and forwards them to its value; the handle type implements none of
\* them, and two handles are compared through dereference, which compares
\* the values they present.
C15_CellForwards ==
    /\ ForwardedTraits \subseteq CowCell_derives
    /\ ForwardedTraits \cap CowRef_derives = {}
    /\ CellCompareForwards
    /\ ret.op = "default" => LoadT(CowCell_deref(ret.id)) = DefaultT
    /\ ret.op = "deref_cmp"
         => /\ ret.flag = (LoadT(get_ref(ret.id)) = LoadT(get_ref(ret.arg)))
            /\ ret.val = CmpT(LoadT(get_ref(ret.id)), LoadT(get_ref(ret.arg)))

C15_Witness ==
    /\ ret.op = "cell_cmp"
    /\ ret.val = 1
    /\ ~ret.flag
    /\ \E h \in Handles : Cloned(h) /\ LoadT(deref(h)) = ret.arg

\* C16: in every handle state read dereference gives the reference and the
\* value get_ref gives, and write dereference does to the handle, clones and
\* returns what get_mut does; a `*h` just made returned what get_ref returns,
\* and a `*h += d` just made left the handle cloned and wrote the copy that
\* get_mut hands out.
C16_DerefAsAccessors ==
    /\ \A h \in Handles :
         Live(h)
           => /\ deref(h) = get_ref(h)
              /\ LoadT(deref(h)) = LoadT(get_ref(h))
              /\ deref_mut(h) = get_mut(h)
              /\ deref_mut(h).clones = IF is_cloned(Self(h)) THEN 0 ELSE 1
    /\ ret.op = "deref"
         => ret.ref = get_ref(ret.id) /\ ret.val = LoadT(get_ref(ret.id))
    /\ ret.op = "deref_mut"
         => /\ Cloned(ret.id)
            /\ ret.ref = get_mut(ret.id).ref
            /\ ret.val = LoadT(get_mut(ret.id).ref)
            /\ ret.val = LoadT(get_ref(ret.id))

C16_Witness ==
    /\ ret.op = "deref_mut"
    /\ ret.clones = 1
    /\ Cloned(ret.id)
    /\ ret.val # CellOf(ret.id)
    /\ \E h \in Handles : Uncloned(h)

\* C17: is_cloned is true exactly of the handles that have had a mutable
\* access, also when the access wrote nothing new; a handle that is not
\* cloned reads the cell's value.  (That a cloned handle may read the cell's
\* value is the state C17_Witness.)
C17_ClonedMeansAccessed ==
    /\ \A h \in Handles :
         Live(h)
           => /\ is_cloned(Self(h)) <=> nmut[h] >= 1
              /\ ~is_cloned(Self(h)) => LoadT(deref(h)) = CellOf(h)
    /\ ret.op \in MutOps => Live(ret.id) /\ is_cloned(Self(ret.id))

C17_Witness ==
    /\ ret.op \in MutOps
    /\ Live(ret.id)
    /\ is_cloned(Self(ret.id))
    /\ nmut[ret.id] = 1
    /\ LoadT(deref(ret.id)) = CellOf(ret.id)

\* C18: a step that ends a handle (drop or into_inner, cloned or not) changes
\* no cell and no other handle; a step that creates a handle gives one that
\* is not cloned and reads the value its cell was made from, whatever
\* earlier handles on the cell did.
C18_NoResidue ==
    [][\A h \in Handles :
         /\ (Live(h) /\ handles'[h] = None)
              => /\ cells' = cells
                 /\ \A g \in Handles \ {h} : handles'[g] = handles[g]
         /\ (~Live(h) /\ handles'[h] # None)
              => /\ cells' = cells
                 /\ ~is_cloned(Self(h))'
                 /\ LoadT(deref(h))' = wrapped[source'[h]].val]_vars

C18_Witness ==
    /\ ret.op \in {"borrow", "from_ref"}
    /\ Uncloned(ret.id)
    /\ nmut[ret.id] = 0
    /\ wrapped[source[ret.id]].written
    /\ \A g \in Handles \ {ret.id} : ~Live(g)
    /\ LoadT(deref(ret.id)) = MaxVal

\* C19: the value into_inner returns is the caller's own: writing to it
\* changes no cell, no other handle, and nothing another handle reads,
\* whether the consumed handle was cloned or not; it starts as the value the
\* handle presented.
C19_IntoInnerDetached ==
    [][\A h \in Handles :
         (Live(h) /\ ret'.op = "into_inner_write" /\ ret'.id = h)
           => /\ ret'.ref = OwnedLoc
              /\ ret'.val = AddT(LoadT(deref(h)), ret'.arg)
              /\ cells' = cells
              /\ \A g \in Handles \ {h} :
                   /\ handles'[g] = handles[g]
                   /\ Live(g) => LoadT(deref(g))' = LoadT(deref(g))]_vars

C19_Witness ==
    /\ ret.op = "into_inner_write"
    /\ ret.clones = 1
    /\ ret.arg # 0
    /\ \E g \in Handles : Uncloned(g) /\ LoadT(deref(g)) # ret.val

====
